---- MODULE Spec2Model ----
(***************************************************************************)
(* Model of the dove DNS server: the etcd primary store, the file          *)
(* fallback store, the zone coordinator (ZoneServer.loadZones), the DNS    *)
(* front-end (ServeMux handlers, handleRequest, FindZone).                 *)
(*                                                                         *)
(* Strings are sequences of one-character strings; packed records, etcd    *)
(* values and file contents are sequences of numbers (cells).  Sequences   *)
(* are indexed from 1 where the Go code indexes from 0.                    *)
(***************************************************************************)
EXTENDS Integers, Sequences, FiniteSets, TLC

(* ------------------------------ bounds -------------------------------- *)
\* admin writes (AddZone, DeleteZone, Patch, Delete) over a run
MaxWrites == 1
\* failed store operations over a run
MaxFail == 1
\* records of a zone handed to the query engine
MaxRecs == 2
\* operations applied to a store on its own
MaxOps == 3

(* ------------------------------ strings ------------------------------- *)
\* Go's nil, and the zero value of a failed result
Nil == [nil |-> TRUE]

\* F applied to the value of x, x evaluated once
With(x, F(_)) == CHOOSE r \in {F(v) : v \in {x}} : TRUE

Ascii(c) ==
    CASE c = "*" -> 42  [] c = "," -> 44  [] c = "." -> 46  [] c = "/" -> 47  [] c = "1" -> 49
      [] c = "2" -> 50  [] c = "B" -> 66  [] c = "H" -> 72  [] c = "_" -> 95
      [] c = "a" -> 97
      [] c = "b" -> 98  [] c = "c" -> 99  [] c = "d" -> 100 [] c = "e" -> 101
      [] c = "h" -> 104 [] c = "n" -> 110 [] c = "o" -> 111 [] c = "p" -> 112
      [] c = "r" -> 114 [] c = "s" -> 115 [] c = "t" -> 116 [] c = "u" -> 117
      [] c = "z" -> 122

Chars == {"*", ",", ".", "/", "1", "2", "B", "H", "_", "a", "b", "c", "d", "e", "h",
          "n", "o", "p", "r", "s", "t", "u", "z"}

IsChar(n) == \E c \in Chars : Ascii(c) = n
Chr(n) == CHOOSE c \in Chars : Ascii(c) = n

Sub(s, from, to) == [i \in 1..(to - from + 1) |-> s[from + i - 1]]
Drop(s, n) == Sub(s, n + 1, Len(s))
Take(s, n) == Sub(s, 1, n)

HasPrefix(s, p) == Len(p) <= Len(s) /\ \A i \in 1..Len(p) : s[i] = p[i]
HasSuffix(s, x) ==
    Len(x) <= Len(s) /\ \A i \in 1..Len(x) : s[Len(s) - Len(x) + i] = x[i]
TrimSuffix(s, x) == IF HasSuffix(s, x) THEN Take(s, Len(s) - Len(x)) ELSE s
Contains(s, c) == \E i \in 1..Len(s) : s[i] = c

\* strings.Split with a one-character separator
RECURSIVE Split(_, _)
Split(s, sep) ==
    IF ~Contains(s, sep)
       THEN <<s>>
       ELSE LET i == CHOOSE k \in 1..Len(s) :
                         s[k] = sep /\ \A j \in 1..(k - 1) : s[j] # sep
            IN <<Take(s, i - 1)>> \o Split(Drop(s, i), sep)

\* byte-wise lexicographic order
StrLess(a, b) ==
    \E i \in 1..Len(b) :
        /\ i <= Len(a) + 1
        /\ \A j \in 1..(i - 1) : a[j] = b[j]
        /\ (i = Len(a) + 1 \/ Ascii(a[i]) < Ascii(b[i]))

\* the elements of a set of strings in ascending byte order
SortStrings(S) ==
    [n \in 1..Cardinality(S) |->
        CHOOSE x \in S : Cardinality({y \in S : StrLess(y, x)}) = n - 1]

Range(s) == {s[i] : i \in 1..Len(s)}

\* strings.ToLower over the letters in use
ToLower(s) ==
    [i \in 1..Len(s) |-> IF s[i] = "B" THEN "b" ELSE IF s[i] = "H" THEN "h" ELSE s[i]]

(* --------------------------- DNS wire codec --------------------------- *)
TypeA == 1
TypeCNAME == 5
TypeANY == 255
ClassINET == 1

Codes(s) == [i \in 1..Len(s) |-> Ascii(s[i])]

IndexOfDot(s) == CHOOSE i \in 1..Len(s) : s[i] = "." /\ \A j \in 1..(i - 1) : s[j] # "."

\* dns.PackRR's owner name: one length cell and the characters per label, then 0
RECURSIVE PackName(_)
PackName(name) ==
    IF name = <<".">> \/ name = <<>> THEN <<0>>
    ELSE LET i == IndexOfDot(name)
         IN <<i - 1>> \o Codes(Take(name, i - 1)) \o PackName(Drop(name, i))

\* dns.PackRR: owner name, type, class, TTL, RDLENGTH, RDATA
\* a packing that loses the TTL
PackRRNoTtl(rr) ==
    PackName(rr.Name) \o <<rr.Rrtype, rr.Class, 0, Len(rr.Rdata)>> \o rr.Rdata

PackRR(rr) ==
    PackName(rr.Name) \o <<rr.Rrtype, rr.Class, rr.Ttl, Len(rr.Rdata)>> \o rr.Rdata

\* the owner name read at offset off: [ok, name, end], end the next offset
RECURSIVE UnpackName(_, _, _)
UnpackName(data, off, acc) ==
    IF off > Len(data) THEN [ok |-> FALSE, name |-> acc, end |-> off]
    ELSE LET l == data[off] IN
         IF l = 0
            THEN [ok |-> TRUE, name |-> IF acc = <<>> THEN <<".">> ELSE acc, end |-> off + 1]
         ELSE IF off + l > Len(data) \/ \E i \in 1..l : ~IsChar(data[off + i])
            THEN [ok |-> FALSE, name |-> acc, end |-> off]
         ELSE UnpackName(data, off + l + 1,
                         acc \o [i \in 1..l |-> Chr(data[off + i])] \o <<".">>)

\* dns.UnpackRR(data, off): [ok, rr, end]
UnpackRR(data, off) ==
    With(UnpackName(data, off, <<>>), LAMBDA n :
        IF ~n.ok \/ n.end + 3 > Len(data)
           THEN [ok |-> FALSE, rr |-> Nil, end |-> Len(data) + 1]
        ELSE IF n.end + 3 + data[n.end + 3] > Len(data)
           THEN [ok |-> FALSE, rr |-> Nil, end |-> Len(data) + 1]
        ELSE [ok |-> TRUE,
              rr |-> [Name |-> n.name, Rrtype |-> data[n.end],
                      Class |-> data[n.end + 1], Ttl |-> data[n.end + 2],
                      Rdata |-> Sub(data, n.end + 4, n.end + 3 + data[n.end + 3])],
              end |-> n.end + 4 + data[n.end + 3]])

(* ------------------------------ data ---------------------------------- *)
ZB == <<"b", ".">>
ZAB == <<"a", ".", "b", ".">>
ZoneNames == {ZB, ZAB}

Ids == {<<"1">>, <<"2">>}

RR(name, type, ttl, rdata) ==
    [Name |-> name, Rrtype |-> type, Class |-> ClassINET, Ttl |-> ttl, Rdata |-> rdata]

\* dns.NewRR resolves relative owners against the root: "@" is ".", "*" is "*."
RRApex == RR(<<".">>, TypeA, 300, <<4>>)
RRWild == RR(<<"*", ".">>, TypeA, 299, <<7>>)
RRSub == RR(<<"a", ".">>, TypeA, 300, <<5>>)
RRWildB == RR(<<"*", ".", "b", ".">>, TypeA, 298, <<8>>)
RRRef == RR(<<"a", ".">>, TypeCNAME, 300, <<9>>)

DnsRecord(id, rr) == [Id |-> id, Record |-> rr]

\* zone.Zone
Zone(name, records, hash) == [Name |-> name, Records |-> records, UpdatedHash |-> hash]

(* ------------------------ primary store (etcd) ------------------------- *)
Prefix == <<"/">>
ZonesDir == <<"_", "_", "z", "o", "n", "e", "s", "/">>
HashKey == <<"_", "_", "u", "p", "d", "a", "t", "e", "d", "H", "a", "s", "h">>
MarkerValue == Codes(<<"t", "r", "u", "e">>)

KvPut(store, k, v) == [x \in DOMAIN store \cup {k} |-> IF x = k THEN v ELSE store[x]]
KvDelete(store, k) == [x \in DOMAIN store \ {k} |-> store[x]]
KvDeletePrefix(store, p) == [x \in {y \in DOMAIN store : ~HasPrefix(y, p)} |-> store[x]]
\* a range read: the keys under p in ascending order
KvRange(store, p) == SortStrings({k \in DOMAIN store : HasPrefix(k, p)})

etcdPrefix(zoneId) == Prefix \o zoneId \o <<"/">>

EtcdListZones(store) ==
    With(KvRange(store, Prefix \o ZonesDir), LAMBDA keys :
        [n \in 1..Len(keys) |-> Drop(keys[n], Len(Prefix \o ZonesDir))])

\* an add-zone that writes nothing
EtcdAddZoneNothing(store, zoneId) == store

EtcdAddZone(store, zoneId) == KvPut(store, Prefix \o ZonesDir \o zoneId, MarkerValue)

EtcdDeleteZone(store, zoneId) == KvDelete(store, Prefix \o ZonesDir \o zoneId)

\* [status, zone]: the records in key order; one record that does not unpack
\* fails the load
EtcdLoad(store, zoneId) ==
    LET prefix == etcdPrefix(zoneId)
        updatedKey == prefix \o HashKey
        updatedHash == IF updatedKey \in DOMAIN store THEN store[updatedKey] ELSE <<>>
    IN With(SelectSeq(KvRange(store, prefix), LAMBDA k : k # updatedKey), LAMBDA recKeys :
         With([n \in 1..Len(recKeys) |-> UnpackRR(store[recKeys[n]], 1)] \o <<>>, LAMBDA rrs :
            IF \E n \in 1..Len(rrs) : ~rrs[n].ok
               THEN [status |-> "err", zone |-> Nil]
               ELSE [status |-> "ok",
                     zone |-> Zone(zoneId,
                                   [n \in 1..Len(rrs) |->
                                       DnsRecord(Drop(recKeys[n], Len(prefix)), rrs[n].rr)],
                                   updatedHash)]))

\* IsCurrent without the token comparison: every loaded zone passes as current
EtcdIsCurrentNoToken(store, z) == z # Nil

\* IsCurrent that takes a missing token for a changed zone
EtcdIsCurrentMissingIsStale(store, z) ==
    IF z = Nil THEN FALSE
    ELSE LET key == etcdPrefix(z.Name) \o HashKey
         IN IF key \notin DOMAIN store THEN FALSE
            ELSE store[key] = z.UpdatedHash

EtcdIsCurrent(store, z) ==
    IF z = Nil THEN FALSE
    ELSE LET key == etcdPrefix(z.Name) \o HashKey
         IN IF key \notin DOMAIN store THEN TRUE
            ELSE store[key] = z.UpdatedHash

\* a patch that writes every record under a key of its own
EtcdPatchNewKey(store, zoneId, record, uuid) ==
    LET prefix == etcdPrefix(zoneId)
    IN KvPut(KvPut(store, prefix \o record.Id \o [k \in 1..uuid |-> "1"],
                   PackRR(record.Record)),
             prefix \o HashKey, <<uuid>>)

\* a delete that leaves the token as it is
EtcdDeleteNoToken(store, zoneId, id, uuid) == KvDelete(store, etcdPrefix(zoneId) \o id)

\* one transaction: the record and a fresh token
EtcdPatch(store, zoneId, record, uuid) ==
    LET prefix == etcdPrefix(zoneId)
    IN KvPut(KvPut(store, prefix \o record.Id, PackRR(record.Record)),
             prefix \o HashKey, <<uuid>>)

EtcdDelete(store, zoneId, id, uuid) ==
    LET prefix == etcdPrefix(zoneId)
    IN KvPut(KvDelete(store, prefix \o id), prefix \o HashKey, <<uuid>>)

EtcdClear(store, zoneId) == KvDeletePrefix(store, Prefix \o zoneId)

(* ------------------------ fallback store (files) ----------------------- *)
\* os.ReadFile returns a slice with room for at least ReadFileMinCap bytes, and
\* for one byte more than the file
ReadFileMinCap == 512

ReadFileCap(data) ==
    IF Len(data) + 1 < ReadFileMinCap THEN ReadFileMinCap ELSE Len(data) + 1

\* [panic, str, end]: Go panics on an index past the length of the data and on
\* a slice bound past its capacity; a slice between the two reads zero bytes
readVarString(data, offset) ==
    IF offset > Len(data) THEN [panic |-> TRUE, str |-> <<>>, end |-> offset]
    ELSE LET length == data[offset] IN
         IF offset + length > ReadFileCap(data)
            THEN [panic |-> TRUE, str |-> <<>>, end |-> offset]
            ELSE [panic |-> FALSE,
                  str |-> [n \in 1..length |->
                              IF offset + n <= Len(data) /\ IsChar(data[offset + n])
                                 THEN Chr(data[offset + n]) ELSE "?"],
                  end |-> offset + 1 + length]

writeVarString(str) == <<Len(str) % 256>> \o Codes(str)

FileListZones(fs) == SortStrings(DOMAIN fs)

\* the read loop of Load: "ok", "err" (UnpackRR failed) or "panic"
RECURSIVE FileReadRecords(_, _, _)
FileReadRecords(data, offset, records) ==
    With(readVarString(data, offset), LAMBDA id :
        IF id.panic THEN [status |-> "panic", records |-> records]
        ELSE With(UnpackRR(data, id.end), LAMBDA u :
            IF ~u.ok THEN [status |-> "err", records |-> records]
            ELSE IF u.end = Len(data) + 1
               THEN [status |-> "ok", records |-> Append(records, DnsRecord(id.str, u.rr))]
            ELSE FileReadRecords(data, u.end, Append(records, DnsRecord(id.str, u.rr)))))

\* [status, zone]
FileLoad(fs, zoneId) ==
    IF zoneId \notin DOMAIN fs THEN [status |-> "err", zone |-> Nil]
    ELSE With(FileReadRecords(fs[zoneId], 1, <<>>), LAMBDA r :
            IF r.status = "ok"
               THEN [status |-> "ok", zone |-> Zone(zoneId, r.records, <<>>)]
               ELSE [status |-> r.status, zone |-> Nil])

FileIsCurrent(z) == TRUE

\* a patch that writes at the start of the file
FilePatchPrepend(fs, zoneId, record) ==
    LET data == writeVarString(record.Id) \o PackRR(record.Record)
        old == IF zoneId \in DOMAIN fs THEN fs[zoneId] ELSE <<>>
    IN [x \in DOMAIN fs \cup {zoneId} |-> IF x = zoneId THEN data \o old ELSE fs[x]]

\* append to the zone's file, creating it
FilePatch(fs, zoneId, record) ==
    LET data == writeVarString(record.Id) \o PackRR(record.Record)
        old == IF zoneId \in DOMAIN fs THEN fs[zoneId] ELSE <<>>
    IN [x \in DOMAIN fs \cup {zoneId} |-> IF x = zoneId THEN old \o data ELSE fs[x]]

\* a clear that leaves the file as it is
FileClearKeeps(fs, zoneId) == fs

\* truncate the zone's file if it exists
FileClear(fs, zoneId) ==
    IF zoneId \notin DOMAIN fs THEN fs
    ELSE [fs EXCEPT ![zoneId] = <<>>]

(* ------------------------------ state --------------------------------- *)
VARIABLES
    kv,          \* the etcd key-value store
    writes,      \* admin writes committed so far (the next uuid is writes + 1)
    fails,       \* store operations that failed so far
    files,       \* the fallback directory: file name -> contents
    ZoneIds,     \* ZoneServer.ZoneIds
    Zones,       \* ZoneServer.Zones
    handlers,    \* the ServeMux: zone name -> the Zone its handler closes over
    phase,       \* "bootPrimary", "bootFallback" (NewZoneServer) or "run" (zoneRefresher)
    pc,          \* position inside loadZones; "list" is also the wait for the next tick
    oldZoneIds,  \* loadZones' oldZoneIds
    idx,         \* position of loadZones' first loop in ZoneIds
    mj,          \* position of InternalTransfer's loop in zone.Records
    prev,        \* s.Zones[zoneId] as passed to IsCurrent
    ret,         \* what the last loadZones returned: "none", "ok", "err"
    mirrorOk,    \* zones whose last InternalTransfer returned nil
    resp,        \* the last DNS response written
    acceptedKeys, \* authMiddleware.acceptedKeys
    ctxDone,     \* the context handed to nameserver.New has been cancelled
    dns,         \* Server.dns: "new", "serving", "failed" or "shutdown"
    stopper,     \* the goroutine that waits for ctx.Done(): "waiting" or "done"
    refresher,   \* the zoneRefresher goroutine: "running" or "returned"
    mem          \* the Zone objects by address, with the pointers the table, the
                 \* handlers and a running scan hold; Nil where addresses are not followed

lifeVars == <<ctxDone, dns, stopper, refresher>>

vars == <<kv, writes, fails, files, ZoneIds, Zones, handlers, phase, pc,
          oldZoneIds, idx, mj, prev, ret, mirrorOk, resp, acceptedKeys, lifeVars, mem>>

coordVars == <<ZoneIds, Zones, handlers, phase, pc, oldZoneIds, idx, mj, prev,
               ret, mirrorOk>>

Empty == <<>>

ZoneAt(table, z) == IF z \in DOMAIN table THEN table[z] ELSE Nil

MapPut(f, k, v) == [x \in DOMAIN f \cup {k} |-> IF x = k THEN v ELSE f[x]]
MapRemove(f, S) == [x \in DOMAIN f \ S |-> f[x]]

(* --------------------------- Zone objects ------------------------------ *)
\* a reload that writes the loaded Zone over the object the table points to
MemStoreInPlace(m, zoneId, zone) ==
    IF m = Nil THEN m
    ELSE IF zoneId \in DOMAIN m.table
       THEN [m EXCEPT !.heap[m.table[zoneId]] = zone]
    ELSE [m EXCEPT !.heap = Append(m.heap, zone),
                   !.table = MapPut(m.table, zoneId, Len(m.heap) + 1)]

\* loadZones line 54, s.Zones[zoneId] = &zone: the loaded Zone is a new object
\* and the table points to it
MemStore(m, zoneId, zone) ==
    IF m = Nil THEN m
    ELSE [m EXCEPT !.heap = Append(m.heap, zone),
                   !.table = MapPut(m.table, zoneId, Len(m.heap) + 1)]

(* ------------------------ the DNS front-end ---------------------------- *)
Question(name, qtype) == [Name |-> name, Qtype |-> qtype]

RcodeSuccess == 0
RcodeNameError == 3
RcodeRefused == 5

\* the stored record itself, with no copy and no owner rewrite
CopyKeepName(rr, name) == rr

\* dns.Copy and the owner rewrite
CopyWithName(rr, name) == [rr EXCEPT !.Name = name]

TypeMatches(q, rr) == q.Qtype = TypeANY \/ rr.Rrtype = q.Qtype

\* the body of handleRequest's loop over zone.Records, for one record:
\* the RRs it appends to m.Answer
MatchRecord(zone, q, record) ==
    LET trimmed == TrimSuffix(q.Name, zone.Name)
        name == IF trimmed = <<>> THEN <<".">> ELSE trimmed
        recordName == record.Record.Name
    IN IF recordName = name /\ TypeMatches(q, record.Record)
          THEN <<CopyWithName(record.Record, q.Name)>>
       ELSE IF HasPrefix(recordName, <<"*", ".">>)
          THEN LET wildcardSuffix == Drop(recordName, 2)
               IN IF /\ HasSuffix(q.Name, wildcardSuffix)
                     /\ ~Contains(Take(q.Name, Len(q.Name) - Len(wildcardSuffix)), ".")
                     /\ TypeMatches(q, record.Record)
                     THEN <<CopyWithName(record.Record, q.Name)>>
                     ELSE <<>>
       ELSE <<>>

RECURSIVE AnswerQuestion(_, _, _)
AnswerQuestion(zone, q, records) ==
    IF records = <<>> THEN <<>>
    ELSE MatchRecord(zone, q, Head(records)) \o AnswerQuestion(zone, q, Tail(records))

\* handleRequest(zone, w, r): the reply to the questions of r
RECURSIVE handleRequest(_, _)
handleRequest(zone, questions) ==
    IF questions = <<>> THEN <<>>
    ELSE AnswerQuestion(zone, Head(questions), zone.Records)
            \o handleRequest(zone, Tail(questions))

\* the offsets of the labels of q (0 is the whole name)
LabelOffsets(q) == {0} \cup {n \in 1..(Len(q) - 1) : q[n] = "."}

\* the handler the ServeMux built in New dispatches a name to: the registered
\* name that is the longest label suffix of the lower-cased name, else the
\* root's, else none
MuxMatch(h, name) ==
    LET q == ToLower(name)
        hits == {n \in LabelOffsets(q) : Drop(q, n) \in DOMAIN h}
    IN IF hits # {}
          THEN h[Drop(q, CHOOSE n \in hits : \A m \in hits : n <= m)]
       ELSE IF <<".">> \in DOMAIN h THEN h[<<".">>]
       ELSE Nil

\* onZoneUpdated's two steps on the ServeMux
\* the mux keeps its patterns fully qualified and in lower case
Fqdn(s) == IF HasSuffix(s, <<".">>) THEN s ELSE s \o <<".">>
CanonicalName(s) == ToLower(Fqdn(s))

HandleRemove(h, name) == MapRemove(h, {CanonicalName(name)})
HandleFunc(h, name, zone) == MapPut(h, CanonicalName(name), zone)

\* the same on the pointers: the registered closure holds the pointer it was given
MemHandleRemove(m, name) ==
    IF m = Nil THEN m ELSE [m EXCEPT !.mux = HandleRemove(m.mux, name)]
MemHandleFunc(m, name, zoneId) ==
    IF m = Nil THEN m ELSE [m EXCEPT !.mux = HandleFunc(m.mux, name, m.table[zoneId])]

\* loadZones line 73-74: delete(s.Zones, zoneId); onZoneUpdated(zoneId, nil)
MemDelete(m, removed) ==
    IF m = Nil THEN m
    ELSE [m EXCEPT !.table = MapRemove(m.table, removed),
                   !.mux = MapRemove(m.mux, {CanonicalName(z) : z \in removed})]

\* ZoneServer.FindZone: the map is ranged over in an unspecified order, so any
\* of the longest ids can be the one kept
FindZone(table, query) ==
    IF DOMAIN table = {} THEN {Nil}
    ELSE {table[id] : id \in {x \in DOMAIN table :
                                 \A y \in DOMAIN table : Len(y) <= Len(x)}}

\* Server.handleRequest's loop over zone.Records, for one record
ServerMatchRecord(q, record) ==
    LET recordName == record.Record.Name
    IN IF recordName = q.Name /\ TypeMatches(q, record.Record)
          THEN <<record.Record>>
       ELSE IF HasPrefix(recordName, <<"*", ".">>)
          THEN LET wildcardSuffix == Drop(recordName, 2)
               IN IF /\ HasSuffix(q.Name, wildcardSuffix)
                     /\ ~Contains(Take(q.Name, Len(q.Name) - Len(wildcardSuffix)), ".")
                     /\ TypeMatches(q, record.Record)
                     THEN <<CopyWithName(record.Record, q.Name)>>
                     ELSE <<>>
       ELSE <<>>

RECURSIVE ServerAnswer(_, _)
ServerAnswer(q, records) ==
    IF records = <<>> THEN <<>>
    ELSE ServerMatchRecord(q, Head(records)) \o ServerAnswer(q, Tail(records))

(* --------------------------- the coordinator --------------------------- *)
fallback == phase = "bootFallback"

\* loadZones returns: NewZoneServer retries a failed boot load on the fallback,
\* then (or after a tick) the refresher waits for the next tick
Finish(err) ==
    /\ pc' = "list"
    /\ phase' = IF phase = "bootPrimary" /\ err THEN "bootFallback" ELSE "run"
    /\ ret' = IF err THEN "err" ELSE "ok"
    /\ idx' = 0
    /\ mj' = 0
    /\ oldZoneIds' = <<>>
    /\ prev' = Nil

\* the first loop moves to its next zone, or ends
NextZone ==
    /\ idx' = idx + 1
    /\ pc' = IF idx + 1 > Len(ZoneIds) THEN "remove" ELSE "check"
    /\ mj' = 0
    /\ prev' = Nil
    /\ UNCHANGED <<phase, ret, oldZoneIds>>

\* a store operation fails (the store is unreachable, the disk errs); the boot
\* on the fallback may fail once after the primary has used up its failures
Fails ==
    /\ fails < MaxFail + (IF fallback THEN 1 ELSE 0)
    /\ fails' = fails + 1

\* a tick that starts its reconcile without waiting for the previous one
ListStepEveryTick ==
    /\ pc # "crashed"
    /\ UNCHANGED <<kv, writes, files, Zones, handlers, mirrorOk, resp, acceptedKeys, lifeVars, mem>>
    /\ \/ /\ Fails
          /\ Finish(TRUE)
          /\ UNCHANGED ZoneIds
       \/ /\ \E zoneIds \in {IF fallback THEN FileListZones(files) ELSE EtcdListZones(kv)} :
                /\ oldZoneIds' = ZoneIds
                /\ ZoneIds' = zoneIds
                /\ idx' = 1
                /\ pc' = IF Len(zoneIds) = 0 THEN "remove" ELSE "check"
          /\ UNCHANGED <<fails, phase, ret, mj, prev>>

\* the fetched list assigned to s.ZoneIds before the error is looked at
ListStepAssignFirst ==
    /\ pc = "list"
    /\ UNCHANGED <<kv, writes, files, Zones, handlers, mirrorOk, resp, acceptedKeys, lifeVars, mem>>
    /\ \/ /\ Fails
          /\ Finish(TRUE)
          /\ ZoneIds' = <<>>
       \/ /\ \E zoneIds \in {IF fallback THEN FileListZones(files) ELSE EtcdListZones(kv)} :
                /\ oldZoneIds' = ZoneIds
                /\ ZoneIds' = zoneIds
                /\ idx' = 1
                /\ pc' = IF Len(zoneIds) = 0 THEN "remove" ELSE "check"
          /\ UNCHANGED <<fails, phase, ret, mj, prev>>

\* loadZones line 35-40: the tick (or the boot) fetches the zone list
ListStep ==
    /\ pc = "list"
    /\ UNCHANGED <<kv, writes, files, Zones, handlers, mirrorOk, resp, acceptedKeys, lifeVars, mem>>
    /\ \/ /\ Fails
          /\ Finish(TRUE)
          /\ UNCHANGED ZoneIds
       \/ /\ \E zoneIds \in {IF fallback THEN FileListZones(files) ELSE EtcdListZones(kv)} :
                /\ oldZoneIds' = ZoneIds
                /\ ZoneIds' = zoneIds
                /\ idx' = 1
                /\ pc' = IF Len(zoneIds) = 0 THEN "remove" ELSE "check"
          /\ UNCHANGED <<fails, phase, ret, mj, prev>>

\* loadZones line 44-48: is the table's zone current?
CheckStep ==
    /\ pc = "check"
    /\ UNCHANGED <<kv, writes, files, ZoneIds, Zones, handlers, mirrorOk, resp, acceptedKeys, lifeVars, mem>>
    /\ LET z == ZoneAt(Zones, ZoneIds[idx]) IN
       \/ /\ ~fallback /\ z # Nil
          /\ Fails
          /\ Finish(TRUE)
       \/ /\ UNCHANGED fails
          /\ IF (IF fallback THEN FileIsCurrent(z) ELSE EtcdIsCurrent(kv, z))
                THEN NextZone
                ELSE /\ pc' = "load"
                     /\ prev' = z
                     /\ UNCHANGED <<phase, ret, oldZoneIds, idx, mj>>

\* loadZones line 50-54: load the zone and put it in the table
LoadStep ==
    /\ pc = "load"
    /\ UNCHANGED <<kv, writes, files, ZoneIds, handlers, resp, acceptedKeys, lifeVars>>
    /\ \/ /\ Fails
          /\ Finish(TRUE)
          /\ UNCHANGED <<Zones, mirrorOk, mem>>
       \/ /\ UNCHANGED fails
          /\ \E l \in {IF fallback THEN FileLoad(files, ZoneIds[idx])
                                   ELSE EtcdLoad(kv, ZoneIds[idx])} :
                IF l.status = "panic"
                   THEN /\ pc' = "crashed"
                        /\ UNCHANGED <<Zones, mirrorOk, phase, ret, oldZoneIds, idx, mj, prev, mem>>
                ELSE IF l.status = "err"
                   THEN Finish(TRUE) /\ UNCHANGED <<Zones, mirrorOk, mem>>
                ELSE /\ Zones' = MapPut(Zones, ZoneIds[idx], l.zone)
                     /\ mem' = MemStore(mem, ZoneIds[idx], l.zone)
                     /\ mirrorOk' = mirrorOk \ {ZoneIds[idx]}
                     /\ pc' = "notifyRemove"
                     /\ UNCHANGED <<phase, ret, oldZoneIds, idx, mj, prev>>

\* onZoneUpdated(zoneId, zone): handler.HandleRemove(name)
NotifyRemove ==
    /\ pc = "notifyRemove"
    /\ handlers' = HandleRemove(handlers, ZoneIds[idx])
    /\ mem' = MemHandleRemove(mem, ZoneIds[idx])
    /\ pc' = "notifyAdd"
    /\ UNCHANGED <<kv, writes, fails, files, ZoneIds, Zones, phase, oldZoneIds, idx,
                   mj, prev, ret, mirrorOk, resp, acceptedKeys, lifeVars>>

\* onZoneUpdated(zoneId, zone): handler.HandleFunc(name, ...)
NotifyAdd ==
    /\ pc = "notifyAdd"
    /\ handlers' = HandleFunc(handlers, ZoneIds[idx], Zones[ZoneIds[idx]])
    /\ mem' = MemHandleFunc(mem, ZoneIds[idx], ZoneIds[idx])
    /\ pc' = "mirrorClear"
    /\ UNCHANGED <<kv, writes, fails, files, ZoneIds, Zones, phase, oldZoneIds, idx,
                   mj, prev, ret, mirrorOk, resp, acceptedKeys, lifeVars>>

\* InternalTransfer line 21-24: clear the mirror
MirrorClear ==
    /\ pc = "mirrorClear"
    /\ UNCHANGED <<kv, writes, ZoneIds, Zones, handlers, resp, acceptedKeys, lifeVars, mem>>
    /\ LET zone == Zones[ZoneIds[idx]] IN
       \/ /\ zone.Name \in DOMAIN files
          /\ Fails
          /\ NextZone
          /\ UNCHANGED <<files, mirrorOk>>
       \/ /\ UNCHANGED fails
          /\ files' = FileClear(files, zone.Name)
          /\ IF Len(zone.Records) = 0
                THEN mirrorOk' = mirrorOk \cup {zone.Name} /\ NextZone
                ELSE /\ pc' = "mirrorPatch"
                     /\ mj' = 1
                     /\ UNCHANGED <<mirrorOk, phase, ret, oldZoneIds, idx, prev>>

\* InternalTransfer line 25-30: append one record to the mirror
MirrorPatch ==
    /\ pc = "mirrorPatch"
    /\ UNCHANGED <<kv, writes, ZoneIds, Zones, handlers, resp, acceptedKeys, lifeVars, mem>>
    /\ LET zone == Zones[ZoneIds[idx]] IN
       \/ /\ Fails
          /\ NextZone
          /\ UNCHANGED <<files, mirrorOk>>
       \/ /\ UNCHANGED fails
          /\ files' = FilePatch(files, zone.Name, zone.Records[mj])
          /\ IF mj = Len(zone.Records)
                THEN mirrorOk' = mirrorOk \cup {zone.Name} /\ NextZone
                ELSE /\ mj' = mj + 1
                     /\ UNCHANGED <<mirrorOk, phase, pc, ret, oldZoneIds, idx, prev>>

\* loadZones line 70-80: drop the zones that left the list, and return
RemoveStep ==
    /\ pc = "remove"
    /\ LET removed == {z \in Range(oldZoneIds) : z \notin Range(ZoneIds)}
       IN /\ Zones' = MapRemove(Zones, removed)
          /\ handlers' = MapRemove(handlers, {CanonicalName(z) : z \in removed})
          /\ mirrorOk' = mirrorOk \ removed
          /\ mem' = MemDelete(mem, removed)
    /\ Finish(FALSE)
    /\ UNCHANGED <<kv, writes, fails, files, ZoneIds, resp, acceptedKeys, lifeVars>>

Coordinator ==
    \/ ListStep
    \/ CheckStep
    \/ LoadStep
    \/ NotifyRemove
    \/ NotifyAdd
    \/ MirrorClear
    \/ MirrorPatch
    \/ RemoveStep

(* ------------------------------ the admin ------------------------------ *)
AdminRRs == {RRApex, RRWild}

Write(store) ==
    /\ writes < MaxWrites
    /\ writes' = writes + 1
    /\ kv' = store
    /\ UNCHANGED <<fails, files, resp>>
    /\ UNCHANGED <<coordVars, acceptedKeys, lifeVars, mem>>

\* PUT /api/v1/zone/{zone}
AdminAddZone == \E z \in ZoneNames : Write(EtcdAddZone(kv, z))

\* DELETE /api/v1/zone/{zone}
AdminDeleteZone == \E z \in ZoneNames : Write(EtcdDeleteZone(kv, z))

\* PUT /api/v1/zone/{zone}/{record}
AdminPatch ==
    \E z \in ZoneNames, id \in Ids, rr \in AdminRRs :
        Write(EtcdPatch(kv, z, DnsRecord(id, rr), writes + 1))

\* DELETE /api/v1/zone/{zone}/{record}
AdminDelete ==
    \E z \in ZoneNames, id \in Ids : Write(EtcdDelete(kv, z, id, writes + 1))

Admin == AdminAddZone \/ AdminDeleteZone \/ AdminPatch \/ AdminDelete

\* the --accept-keys flag and the keys admin.New hands to withAuth
AcceptKeysFlag == <<"1", ",", "2">>
InitAdmin == acceptedKeys = Split(AcceptKeysFlag, ",")

\* addresses are not followed
InitMem == mem = Nil

\* nothing is cancelled, the listener is not started and both goroutines wait
InitLife ==
    /\ ctxDone = FALSE
    /\ dns = "new"
    /\ stopper = "waiting"
    /\ refresher = "running"

(* ------------------------------ queries -------------------------------- *)
QNames == {ZB, ZAB, <<"c", ".", "b", ".">>, <<"c", ".">>, <<"B", ".">>}
QTypes == {TypeA, TypeCNAME, TypeANY}

\* a message dispatched by the ServeMux to the handler registered by New
MuxResponse(h, q) ==
    LET zone == MuxMatch(h, q.Name)
    IN IF zone = Nil
          THEN [via |-> "mux", q |-> q, zone |-> Nil, answer |-> <<>>,
                rcode |-> RcodeRefused, aa |-> FALSE]
          ELSE [via |-> "mux", q |-> q, zone |-> zone,
                answer |-> handleRequest(zone, <<q>>),
                rcode |-> RcodeSuccess, aa |-> TRUE]

\* NXDOMAIN for every reply without answers
ServerRcodeNoAnswer(missingZones, answer) ==
    IF Len(answer) = 0 THEN RcodeNameError ELSE RcodeSuccess

\* Server.handleRequest line 148-151
ServerRcode(missingZones, answer) ==
    IF missingZones /\ Len(answer) = 0 THEN RcodeNameError ELSE RcodeSuccess

\* Server.handleRequest with FindZone having returned zone
ServerResponse(zone, q) ==
    LET answer == IF zone = Nil THEN <<>> ELSE ServerAnswer(q, zone.Records)
        missingZones == zone = Nil
    IN [via |-> "server", q |-> q, zone |-> zone, answer |-> answer,
        rcode |-> ServerRcode(missingZones, answer),
        aa |-> TRUE]

Query(names, types) ==
    /\ \E n \in names, t \in types : resp' = MuxResponse(handlers, Question(n, t))
    /\ UNCHANGED <<kv, writes, fails, files>>
    /\ UNCHANGED <<coordVars, acceptedKeys, lifeVars, mem>>

ServerQuery(names, types) ==
    /\ \E n \in names, t \in types :
          \E zone \in FindZone(Zones, n) : resp' = ServerResponse(zone, Question(n, t))
    /\ UNCHANGED <<kv, writes, fails, files>>
    /\ UNCHANGED <<coordVars, acceptedKeys, lifeVars, mem>>

(* --------------------------- specifications ---------------------------- *)
Rec1 == DnsRecord(<<"1">>, RRApex)
Rec2 == DnsRecord(<<"2">>, RRWild)

\* what earlier runs can have left in etcd and in the fallback directory
InitStores ==
    {Empty,
     EtcdPatch(EtcdAddZone(Empty, ZB), ZB, Rec1, 0),
     EtcdPatch(EtcdAddZone(EtcdAddZone(Empty, ZB), ZAB), ZB, Rec1, 0)}

InitFiles == {Empty, FilePatch(Empty, ZB, Rec1)}

InitCoordinator ==
    /\ ZoneIds = <<>>
    /\ Zones = Empty
    /\ handlers = Empty
    /\ phase = "bootPrimary"
    /\ pc = "list"
    /\ oldZoneIds = <<>>
    /\ idx = 0
    /\ mj = 0
    /\ prev = Nil
    /\ ret = "none"
    /\ mirrorOk = {}

Init ==
    /\ kv \in InitStores
    /\ files \in InitFiles
    /\ writes = 0
    /\ fails = 0
    /\ resp = Nil
    /\ InitCoordinator
    /\ InitAdmin
    /\ InitLife
    /\ InitMem

SysQuery == Query({ZB, ZAB}, {TypeA})

Next == Coordinator \/ Admin \/ SysQuery

Spec == Init /\ [][Next]_vars

(* ------------------ the coordinator against the primary ---------------- *)
\* the zones the primary declares
Declared(store) == Range(EtcdListZones(store))

\* the record set the primary holds for z
PrimaryRecords(store, z) ==
    LET prefix == etcdPrefix(z)
        keys == {k \in DOMAIN store : HasPrefix(k, prefix) /\ k # prefix \o HashKey}
    IN {DnsRecord(Drop(k, Len(prefix)), UnpackRR(store[k], 1).rr) : k \in keys}

\* the table entry of z holds exactly the primary's records, and the handler
\* registered for z serves that Zone
InSync(z) ==
    /\ z \in DOMAIN Zones
    /\ Range(Zones[z].Records) = PrimaryRecords(kv, z)
    /\ Len(Zones[z].Records) = Cardinality(PrimaryRecords(kv, z))
    /\ z \in DOMAIN handlers
    /\ handlers[z] = Zones[z]

\* the ticker keeps firing and every started step of loadZones completes; the
\* primary fails at most MaxFail times
LiveNext == Coordinator \/ Admin

LiveSpec == Init /\ [][LiveNext]_vars /\ WF_vars(Coordinator)

\* C1: after the writes on the primary have committed, and with the primary
\* reachable and ticks occurring, the table entry of every declared zone comes to
\* hold exactly the primary's record set, with the handler notified of that Zone,
\* and stays so.
C1_Propagation == <>[](\A z \in Declared(kv) : InSync(z))

\* a tick has reloaded a declared zone after an admin write: the table holds the
\* token of that write and the post-write records
C1_Reloaded ==
    /\ writes > 0
    /\ pc = "list"
    /\ \E z \in Declared(kv) :
          /\ InSync(z)
          /\ PrimaryRecords(kv, z) # {}
          /\ Zones[z].UpdatedHash = <<writes>>

\* C2: when the boot reconcile against the primary failed and the reconcile
\* against the fallback returned without error, every zone with a readable mirror
\* file is in the table with the mirrored records and its handler is registered.
C2_BootFailover ==
    [][(phase = "bootFallback" /\ phase' = "run" /\ ret' = "ok") =>
         \A z \in DOMAIN files' :
            FileLoad(files', z).status = "ok" =>
               /\ z \in DOMAIN Zones'
               /\ Zones'[z].Records = FileLoad(files', z).zone.Records
               /\ z \in DOMAIN handlers'
               /\ handlers'[z] = Zones'[z]]_vars

\* C3: when IsCurrent or Load fails for a zone, the table is left as it is and the
\* tick goes on to the other zones of the fetched list: it can end at the failure
\* only if the failed zone was the last of the list.
C3_FailureIsolation ==
    [][(pc \in {"check", "load"} /\ pc' = "list" /\ ret' = "err") =>
         /\ Zones' = Zones
         /\ idx = Len(ZoneIds)]_vars

\* C4: after a tick that fetched the list and ran to its end, whatever ticks came
\* before, no zone outside the fetched list is left in the table or registered.
C4_Removal ==
    (pc = "list" /\ ret = "ok") =>
        /\ DOMAIN Zones \subseteq Range(ZoneIds)
        /\ DOMAIN handlers \subseteq Range(ZoneIds)

\* C5: a zone whose mirror operation returned no error loads from the fallback
\* with exactly the records of the in-memory zone, zero records included.
C5_MirrorInvariant ==
    \A z \in mirrorOk :
        /\ FileLoad(files, z).status = "ok"
        /\ FileLoad(files, z).zone.Records = Zones[z].Records

\* the zone that answered n before the swap was the one being replaced
InReplaced(n) == MuxMatch(HandleFunc(handlers, ZoneIds[idx], prev), n) = prev

\* C6: while a zone already in the table is being replaced, a query that falls in
\* it is answered from the pre-swap Zone or from the post-swap Zone, never from
\* anything else and never as if the zone were absent.
C6_AtomicPublication ==
    (pc \in {"notifyRemove", "notifyAdd"} /\ prev # Nil) =>
        \A n \in QNames :
            InReplaced(n) =>
                MuxResponse(handlers, Question(n, TypeA)).zone
                    \in {prev, Zones[ZoneIds[idx]]}

(* ---------------------- the front-end over a table --------------------- *)
QueryRRs == {RRApex, RRSub, RRWild, RRWildB, RRRef}

\* record ids "1", "11", ...: etcd returns the records of a zone in id order
IdOf(i) == [k \in 1..i |-> "1"]

RECURSIVE PatchAll(_, _, _, _)
PatchAll(store, zoneId, rrs, i) ==
    IF i > Len(rrs) THEN store
    ELSE PatchAll(EtcdPatch(store, zoneId, DnsRecord(IdOf(i), rrs[i]), i), zoneId, rrs, i + 1)

\* the primary after the admin declared b. (and a.b.) and put up to MaxRecs
\* records into b.
QueryStores ==
    LET lists == UNION {[1..n -> QueryRRs] : n \in 0..MaxRecs}
        withB == {PatchAll(EtcdAddZone(Empty, ZB), ZB, rrs, 1) : rrs \in lists}
        withAB == {EtcdPatch(EtcdAddZone(store, ZAB), ZAB, Rec1, 0) : store \in withB}
    IN {Empty} \cup withB \cup withAB

\* the state a completed reconcile of the primary leaves
QueryInit ==
    /\ kv \in QueryStores
    /\ files = Empty
    /\ writes = 0
    /\ fails = 0
    /\ resp = Nil
    /\ InitAdmin
    /\ InitLife
    /\ InitMem
    /\ ZoneIds = EtcdListZones(kv)
    /\ Zones = [z \in Declared(kv) |-> EtcdLoad(kv, z).zone]
    /\ handlers = [z \in Declared(kv) |-> EtcdLoad(kv, z).zone]
    /\ phase = "run"
    /\ pc = "list"
    /\ oldZoneIds = <<>>
    /\ idx = 0
    /\ mj = 0
    /\ prev = Nil
    /\ ret = "ok"
    /\ mirrorOk = {}

QueryNext == Query(QNames, QTypes) \/ ServerQuery(QNames, QTypes)

QuerySpec == QueryInit /\ [][QueryNext]_vars

\* the owner of qname relative to the apex, "." standing for the apex itself
relative(qname, zoneName) ==
    LET trimmed == TrimSuffix(qname, zoneName)
    IN IF trimmed = <<>> THEN <<".">> ELSE trimmed

\* the records of zone with the relative owner of q and a type q asks for
ExactRecords(zone, q) ==
    SelectSeq(zone.Records,
              LAMBDA r : r.Record.Name = relative(q.Name, zone.Name) /\ TypeMatches(q, r.Record))

\* the zones of the table whose apex is a suffix of qname
SuffixZones(table, qname) == {z \in DOMAIN table : HasSuffix(qname, z)}

\* C7: the zone that answers a question is a zone of the table whose apex is a
\* suffix of the question's name and no such apex is longer; when no apex is a
\* suffix of the name, no zone answers.
C7_ZoneSelection ==
    resp # Nil =>
        LET hits == SuffixZones(Zones, resp.q.Name)
        IN IF hits = {} THEN resp.zone = Nil
           ELSE /\ resp.zone # Nil
                /\ resp.zone.Name \in hits
                /\ \A z \in hits : Len(z) <= Len(resp.zone.Name)

\* C8: when records of the selected zone have the question's relative owner and
\* a type the question asks for, the answer is exactly those records, in zone
\* order, each with its TTL, class and RDATA and with the question's name as owner.
C8_ExactPass ==
    (resp # Nil /\ resp.via = "mux" /\ resp.zone # Nil) =>
        LET exact == ExactRecords(resp.zone, resp.q)
        IN exact # <<>> =>
              resp.answer = [n \in 1..Len(exact) |->
                                CopyWithName(exact[n].Record, resp.q.Name)]

\* C9: when a record with the question's relative owner and type exists, the
\* answer holds it and holds nothing made from a wildcard record, whatever the
\* order of the zone's records.
C9_ExactShadowsWildcard ==
    (resp # Nil /\ resp.via = "mux" /\ resp.zone # Nil) =>
        LET exact == ExactRecords(resp.zone, resp.q)
            wild == {r \in Range(resp.zone.Records) :
                        /\ HasPrefix(r.Record.Name, <<"*">>)
                        /\ r.Record.Name # relative(resp.q.Name, resp.zone.Name)}
        IN exact # <<>> =>
              /\ \A n \in 1..Len(exact) :
                    CopyWithName(exact[n].Record, resp.q.Name) \in Range(resp.answer)
              /\ \A w \in wild :
                    CopyWithName(w.Record, resp.q.Name) \notin Range(resp.answer)

\* C10: when the zone holds the bare wildcard of a type and no record with the
\* question's relative owner and that type, a question of that type for a name
\* one label below the apex is answered with the wildcard record, the question's
\* name as its owner.
C10_WildcardFallback ==
    (resp # Nil /\ resp.via = "mux" /\ resp.zone # Nil) =>
        LET rel == relative(resp.q.Name, resp.zone.Name)
            bare == {r \in Range(resp.zone.Records) :
                        r.Record.Name = <<"*", ".">> /\ r.Record.Rrtype = resp.q.Qtype}
        IN (/\ bare # {}
            /\ ExactRecords(resp.zone, resp.q) = <<>>
            /\ Len(rel) = 2 /\ rel[1] # "." /\ rel[2] = ".")
           => \A w \in bare :
                 CopyWithName(w.Record, resp.q.Name) \in Range(resp.answer)

\* the wildcard rule on relative names: an owner beginning with "*" whose
\* remainder, after the "*" and its ".", ends the relative question name
WildcardRecords(zone, q) ==
    SelectSeq(zone.Records,
              LAMBDA r : /\ HasPrefix(r.Record.Name, <<"*", ".">>)
                         /\ HasSuffix(relative(q.Name, zone.Name), Drop(r.Record.Name, 2))
                         /\ TypeMatches(q, r.Record))

\* C11: a question whose selected zone is in the table and holds no exact and no
\* wildcard match for it, a zone of zero records included, gets an empty answer
\* section with RCODE NoError and the Authoritative flag.
C11_EmptyAnswer ==
    (resp # Nil /\ resp.via = "mux" /\ resp.zone # Nil) =>
        ((ExactRecords(resp.zone, resp.q) = <<>> /\ WildcardRecords(resp.zone, resp.q) = <<>>)
            => /\ resp.answer = <<>>
               /\ resp.rcode = RcodeSuccess
               /\ resp.aa)

\* C12: a question whose name falls in no zone of the table, any question while
\* the table is empty included, gets RCODE NXDOMAIN, an empty answer section
\* and the Authoritative flag.
C12_UnknownZone ==
    (resp # Nil /\ SuffixZones(Zones, ToLower(resp.q.Name)) = {}) =>
        /\ resp.rcode = RcodeNameError
        /\ resp.answer = <<>>
        /\ resp.aa

C14_CaseInsensitive ==
    (resp # Nil /\ resp.via = "mux") =>
        LET lower == MuxResponse(handlers, Question(ToLower(resp.q.Name), resp.q.Qtype))
        IN resp.answer = [n \in 1..Len(lower.answer) |->
                             CopyWithName(lower.answer[n], resp.q.Name)]

(* ----------------------- the primary store alone ----------------------- *)
StoreRRs == {RRApex, RRWild}

\* what a caller holding the Zone loaded before an operation sees after it
StoreResult(op, zoneId, record, before, after) ==
    [op |-> op, zoneId |-> zoneId, record |-> record,
     before |-> EtcdLoad(before, zoneId),
     after |-> EtcdLoad(after, zoneId),
     current |-> EtcdIsCurrent(after, EtcdLoad(before, zoneId).zone),
     listBefore |-> EtcdListZones(before),
     listAfter |-> EtcdListZones(after)]

StoreOp(op, zoneId, record, store) ==
    /\ writes < MaxOps
    /\ writes' = writes + 1
    /\ kv' = store
    /\ resp' = StoreResult(op, zoneId, record, kv, store)
    /\ UNCHANGED <<fails, files>>
    /\ UNCHANGED <<coordVars, acceptedKeys, lifeVars, mem>>

StorePatch ==
    \E z \in ZoneNames, id \in Ids, rr \in StoreRRs :
        StoreOp("patch", z, DnsRecord(id, rr), EtcdPatch(kv, z, DnsRecord(id, rr), writes + 1))

StoreDelete ==
    \E z \in ZoneNames, id \in Ids :
        StoreOp("delete", z, DnsRecord(id, Nil), EtcdDelete(kv, z, id, writes + 1))

StoreClear == \E z \in ZoneNames : StoreOp("clear", z, Nil, EtcdClear(kv, z))

StoreAddZone == \E z \in ZoneNames : StoreOp("addZone", z, Nil, EtcdAddZone(kv, z))

StoreDeleteZone == \E z \in ZoneNames : StoreOp("deleteZone", z, Nil, EtcdDeleteZone(kv, z))

StoreInit ==
    /\ kv = Empty
    /\ files = Empty
    /\ writes = 0
    /\ fails = 0
    /\ resp = Nil
    /\ InitCoordinator
    /\ InitAdmin
    /\ InitLife
    /\ InitMem

StoreNext == StorePatch \/ StoreDelete \/ StoreClear \/ StoreAddZone \/ StoreDeleteZone

StoreSpec == StoreInit /\ [][StoreNext]_vars

\* the change token the primary holds for a zone, empty when it holds none
StoredToken(store, zoneId) ==
    IF etcdPrefix(zoneId) \o HashKey \in DOMAIN store
       THEN store[etcdPrefix(zoneId) \o HashKey] ELSE <<>>

\* C15: patch then load returns a Zone holding the patched record under its id;
\* delete then load returns no record with the id; clear then load returns zero
\* records; load of a zone with nothing stored succeeds with zero records.
C15_PrimaryRoundTrip ==
    /\ \A z \in ZoneNames :
          (\A k \in DOMAIN kv : ~HasPrefix(k, etcdPrefix(z))) =>
              /\ EtcdLoad(kv, z).status = "ok"
              /\ EtcdLoad(kv, z).zone.Records = <<>>
    /\ (resp # Nil /\ resp.op = "patch") =>
          /\ resp.after.status = "ok"
          /\ resp.record \in Range(resp.after.zone.Records)
    /\ (resp # Nil /\ resp.op = "delete") =>
          /\ resp.after.status = "ok"
          /\ \A r \in Range(resp.after.zone.Records) : r.Id # resp.record.Id
    /\ (resp # Nil /\ resp.op = "clear") =>
          /\ resp.after.status = "ok"
          /\ resp.after.zone.Records = <<>>

\* a delete removed one of two stored records, and the other still loads
C15_DeletedOne ==
    /\ resp # Nil /\ resp.op = "delete"
    /\ \E r \in Range(resp.before.zone.Records) : r.Id = resp.record.Id
    /\ Len(resp.after.zone.Records) = 1

\* C16: after a patch the zone loads with at most one record per id, the patched
\* record under its id and every other id as before; patching the same
\* {id, rr} again leaves the loaded records as they were.
C16_UpsertById ==
    (resp # Nil /\ resp.op = "patch") =>
        LET before == resp.before.zone.Records
            after == resp.after.zone.Records
        IN /\ \A i, j \in 1..Len(after) : after[i].Id = after[j].Id => i = j
           /\ \A r \in Range(after) : r.Id = resp.record.Id => r = resp.record
           /\ {r \in Range(after) : r.Id # resp.record.Id}
                 = {r \in Range(before) : r.Id # resp.record.Id}
           /\ resp.record \in Range(before) => after = before

\* a patch replaced the record stored under an id by another record
C16_Overwrote ==
    /\ resp # Nil /\ resp.op = "patch"
    /\ \E r \in Range(resp.before.zone.Records) :
          r.Id = resp.record.Id /\ r # resp.record
    /\ Len(resp.after.zone.Records) = Len(resp.before.zone.Records)

\* C17: IsCurrent is true exactly when the token stored for the zone equals the
\* token of the supplied Zone, so a Zone with a token is not current once clear
\* removed the stored token; a nil Zone is not current.
C17_IsCurrentIffTokenEqual ==
    /\ ~EtcdIsCurrent(kv, Nil)
    /\ resp # Nil =>
          resp.current = (StoredToken(kv, resp.zoneId) = resp.before.zone.UpdatedHash)

\* C18: every patch and delete replaces the token with a fresh one together with
\* the record write: the Zone loaded before is not current after, the load after
\* carries the new token, loads with the same token have the same records, and
\* no load shows records without a token.
C18_AtomicTokenBump ==
    resp # Nil =>
        /\ resp.op \in {"patch", "delete"} =>
              /\ ~resp.current
              /\ resp.after.zone.UpdatedHash = <<writes>>
              /\ resp.after.zone.UpdatedHash # resp.before.zone.UpdatedHash
        /\ resp.after.zone.UpdatedHash = resp.before.zone.UpdatedHash =>
              resp.after.zone.Records = resp.before.zone.Records
        /\ resp.after.zone.UpdatedHash = <<>> => resp.after.zone.Records = <<>>

\* a delete of a stored record, seen by the holder of the Zone loaded before it
C18_DeleteBumped ==
    /\ resp # Nil /\ resp.op = "delete"
    /\ resp.before.zone.UpdatedHash # <<>>
    /\ \E r \in Range(resp.before.zone.Records) : r.Id = resp.record.Id
    /\ ~resp.current

\* C20: ListZones returns the names added and not since removed: AddZone adds
\* its name and DeleteZone removes its name, each leaving the other names and,
\* when there is nothing to do, the whole list as it was; no other operation
\* changes the list.
C20_ZoneList ==
    resp # Nil =>
        /\ Len(resp.listAfter) = Cardinality(Range(resp.listAfter))
        /\ Range(resp.listAfter) =
              (CASE resp.op = "addZone" -> Range(resp.listBefore) \cup {resp.zoneId}
                 [] resp.op = "deleteZone" -> Range(resp.listBefore) \ {resp.zoneId}
                 [] OTHER -> Range(resp.listBefore))

\* AddZone of a name already declared, beside another declared name
C20_AddedTwice ==
    /\ resp # Nil /\ resp.op = "addZone"
    /\ resp.zoneId \in Range(resp.listBefore)
    /\ Len(resp.listAfter) = 2

(* ----------------------- the fallback store alone ---------------------- *)
FileSize(fs, zoneId) == IF zoneId \in DOMAIN fs THEN Len(fs[zoneId]) ELSE 0

FileResult(op, zoneId, record, before, after) ==
    [op |-> op, zoneId |-> zoneId, record |-> record,
     existed |-> zoneId \in DOMAIN before,
     sizeBefore |-> FileSize(before, zoneId),
     before |-> FileLoad(before, zoneId),
     after |-> FileLoad(after, zoneId)]

FileOp(op, zoneId, record, fs) ==
    /\ writes < MaxOps
    /\ writes' = writes + 1
    /\ files' = fs
    /\ resp' = FileResult(op, zoneId, record, files, fs)
    /\ UNCHANGED <<fails, kv>>
    /\ UNCHANGED <<coordVars, acceptedKeys, lifeVars, mem>>

FileStorePatch ==
    \E z \in ZoneNames, id \in Ids, rr \in StoreRRs :
        FileOp("patch", z, DnsRecord(id, rr), FilePatch(files, z, DnsRecord(id, rr)))

FileStoreClear == \E z \in ZoneNames : FileOp("clear", z, Nil, FileClear(files, z))

FileNext == FileStorePatch \/ FileStoreClear

FileSpec == StoreInit /\ [][FileNext]_vars

StatusOK == 200
StatusBadRequest == 400
StatusUnauthorized == 401
StatusForbidden == 403
StatusInternalServerError == 500

\* the middleware without the accepted-keys check
ServeHTTPNoCheck(keys, authorization, xApiKey) ==
    LET header == IF authorization = <<>> THEN xApiKey ELSE authorization
    IN IF header = <<>> THEN StatusUnauthorized ELSE StatusOK

\* authMiddleware.ServeHTTP: the status it answers with itself, or StatusOK
\* when it hands the request to the wrapped handler
ServeHTTP(keys, authorization, xApiKey) ==
    LET header == IF authorization = <<>> THEN xApiKey ELSE authorization
    IN IF header = <<>>
          THEN StatusUnauthorized
          ELSE IF ~ \E i \in 1..Len(keys) : keys[i] = header
                  THEN StatusForbidden
                  ELSE StatusOK

\* header values a client sends; <<>> is an absent header
HeaderValues == {<<>>, <<"1">>, <<"z">>}

\* one request: the middleware, then the route's handler; failed says that the
\* store call of the handler returned an error and wrote nothing, status is the
\* status the handler answers with
Request(op, zoneId, failed, status, store) ==
    /\ writes < MaxWrites
    /\ writes' = writes + 1
    /\ \E authorization \in HeaderValues, xApiKey \in HeaderValues :
          \E auth \in {ServeHTTP(acceptedKeys, authorization, xApiKey)} :
             LET reached == auth = StatusOK
             IN /\ kv' = IF reached /\ ~failed THEN store ELSE kv
                /\ resp' = [op |-> op, zoneId |-> zoneId,
                            authorization |-> authorization, xApiKey |-> xApiKey,
                            reached |-> reached, failed |-> failed,
                            status |-> IF reached THEN status ELSE auth,
                            changed |-> reached /\ ~failed /\ store # kv]
    /\ UNCHANGED <<fails, files, acceptedKeys, lifeVars, mem>>
    /\ UNCHANGED coordVars

\* GET /api/v1/zone
HttpListZones ==
    \E failed \in BOOLEAN :
        Request("list", <<>>, failed,
                IF failed THEN StatusInternalServerError ELSE StatusOK, kv)

\* PUT /api/v1/zone/{zone}
HttpAddZone ==
    \E z \in ZoneNames, failed \in BOOLEAN :
        Request("addZone", z, failed, StatusOK, EtcdAddZone(kv, z))

\* DELETE /api/v1/zone/{zone}
HttpDeleteZone ==
    \E z \in ZoneNames, failed \in BOOLEAN :
        Request("deleteZone", z, failed, StatusOK, EtcdDeleteZone(kv, z))

\* PUT /api/v1/zone/{zone}/{record}; a body of Nil is one dns.NewRR rejects
HttpPatch ==
    \E z \in ZoneNames, id \in Ids, body \in AdminRRs \cup {Nil}, failed \in BOOLEAN :
        IF body = Nil
           THEN ~failed /\ Request("patch", z, FALSE, StatusBadRequest, kv)
           ELSE Request("patch", z, failed, StatusOK,
                        EtcdPatch(kv, z, DnsRecord(id, body), writes + 1))

\* DELETE /api/v1/zone/{zone}/{record}
HttpDelete ==
    \E z \in ZoneNames, id \in Ids, failed \in BOOLEAN :
        Request("delete", z, failed, StatusOK, EtcdDelete(kv, z, id, writes + 1))

AcceptKeysFlags == {<<>>, <<"1">>, <<"1", ",", "2">>}

HttpInit ==
    /\ kv \in InitStores
    /\ files = Empty
    /\ writes = 0
    /\ fails = 0
    /\ resp = Nil
    /\ InitCoordinator
    /\ acceptedKeys \in {Split(f, ",") : f \in AcceptKeysFlags}
    /\ InitLife
    /\ InitMem

HttpNext == HttpListZones \/ HttpAddZone \/ HttpDeleteZone \/ HttpPatch \/ HttpDelete

HttpSpec == HttpInit /\ [][HttpNext]_vars

\* the key a request presents: Authorization, or X-Api-Key when that is empty
PresentedKey(r) == IF r.authorization = <<>> THEN r.xApiKey ELSE r.authorization

IsAccepted(key) == \E i \in 1..Len(acceptedKeys) : acceptedKeys[i] = key

\* C21: a request reaches a handler only if the key it presents is one of the
\* accepted keys; a request with no key is answered 401, one with a key that
\* is not accepted 403, and neither changes the store.
C21_AdminAuthentication ==
    resp # Nil =>
        /\ resp.reached => IsAccepted(PresentedKey(resp))
        /\ PresentedKey(resp) = <<>> =>
              resp.status = StatusUnauthorized /\ ~resp.changed
        /\ (PresentedKey(resp) # <<>> /\ ~IsAccepted(PresentedKey(resp))) =>
              resp.status = StatusForbidden /\ ~resp.changed

\* a write that presented a wrong key in X-Api-Key only was answered 403
C21_Rejected ==
    /\ resp # Nil
    /\ resp.op = "patch"
    /\ resp.authorization = <<>>
    /\ resp.xApiKey = <<"z">>
    /\ resp.status = StatusForbidden
    /\ EtcdListZones(kv) # <<>>

\* C22: an admin write the primary rejected is answered with a 5xx status and
\* leaves the primary unchanged.
C22_WriteFailure ==
    (resp # Nil /\ resp.reached /\ resp.failed /\ resp.op # "list") =>
        resp.status >= StatusInternalServerError /\ ~resp.changed


(* ------------------------------ ticks and boot ------------------------- *)
\* C23: when the boot load from the primary and the boot load from the fallback
\* both returned an error, NewZoneServer still returns, with an empty table, and
\* the refresher waits for its first tick.
C23_BootNeverBlocks ==
    [][(phase = "bootFallback" /\ phase' = "run" /\ ret' = "err") =>
         /\ pc' = "list"
         /\ DOMAIN Zones' = {}
         /\ DOMAIN handlers' = {}]_vars


\* C24: a tick whose list-zones fails returns at once: the table, the remembered
\* zone-id list, the registered handlers and the fallback files are what they
\* were, and the refresher waits for the next tick.
C24_FailedListIsNoOp ==
    [][(pc = "list" /\ phase = "run" /\ fails' # fails) =>
         /\ Zones' = Zones
         /\ ZoneIds' = ZoneIds
         /\ handlers' = handlers
         /\ files' = files
         /\ pc' = "list"
         /\ phase' = "run"
         /\ ret' = "err"]_vars

\* a tick has failed and left a loaded, mirrored zone in place
C24_TickFailed ==
    /\ phase = "run"
    /\ pc = "list"
    /\ ret = "err"
    /\ fails = MaxFail
    /\ ZoneIds # <<>>
    /\ \A z \in Range(ZoneIds) : z \in DOMAIN Zones /\ z \in DOMAIN handlers
    /\ DOMAIN files # {}


\* C25: a zone whose update notification registered a handler gets a removed
\* notification only from a load that fetched its zone list from the primary,
\* and only when that list omits the zone.
C25_NotificationOrdering ==
    [][\A z \in DOMAIN handlers :
          (pc = "remove" /\ z \notin DOMAIN handlers') =>
              /\ ~fallback
              /\ z \notin Range(ZoneIds)]_vars


\* C26: while the table's entry of a zone is what the primary holds for it (no
\* write to the zone since it was loaded, or no record ever written and no token
\* stored), a tick that checks the zone does not go on to load it, so the zone
\* is neither loaded nor notified nor mirrored again.
C26_SteadyState ==
    [][(/\ pc = "check"
        /\ ~fallback
        /\ ZoneIds[idx] \in DOMAIN Zones
        /\ Zones[ZoneIds[idx]] = EtcdLoad(kv, ZoneIds[idx]).zone) =>
            pc' # "load"]_vars

\* a tick after an untroubled boot has passed over a zone that has no token,
\* loaded with zero records, and checks the next zone
C26_PassedOver ==
    /\ phase = "run"
    /\ pc = "check"
    /\ idx = 2
    /\ fails = 0
    /\ writes = 0
    /\ ZoneIds[1] \in DOMAIN Zones
    /\ Zones[ZoneIds[1]].UpdatedHash = <<>>
    /\ Zones[ZoneIds[1]].Records = <<>>
    /\ Zones[ZoneIds[1]] = EtcdLoad(kv, ZoneIds[1]).zone


(* ------------------- messages with several questions ------------------- *)
\* Server.handleRequest takes the table's lock once per question (FindZone), so
\* the coordinator can change the table between two questions of a message
MsgNames == {ZB, <<".">>}

MsgQuestions == {Question(n, TypeA) : n \in MsgNames}

Messages == {<<q>> : q \in MsgQuestions} \cup (MsgQuestions \X MsgQuestions)

\* a message arrives: m.SetReply(r), m.Authoritative = true, missingZones := false
ServerReceive ==
    /\ resp = Nil
    /\ \E qs \in Messages :
          resp' = [via |-> "server", qs |-> qs, i |-> 1, selected |-> <<>>,
                   missingZones |-> FALSE, answer |-> <<>>,
                   rcode |-> RcodeSuccess, aa |-> TRUE, done |-> FALSE]
    /\ UNCHANGED <<kv, writes, fails, files, acceptedKeys, lifeVars, mem>>
    /\ UNCHANGED coordVars

\* one turn of the loop over r.Question
ServerQuestion ==
    /\ resp # Nil
    /\ ~resp.done
    /\ resp.i <= Len(resp.qs)
    /\ \E zone \in FindZone(Zones, resp.qs[resp.i].Name) :
          resp' = [resp EXCEPT
                     !.i = @ + 1,
                     !.selected = Append(@, zone # Nil),
                     !.missingZones = @ \/ zone = Nil,
                     !.answer = @ \o (IF zone = Nil THEN <<>>
                                      ELSE ServerAnswer(resp.qs[resp.i], zone.Records))]
    /\ UNCHANGED <<kv, writes, fails, files, acceptedKeys, lifeVars, mem>>
    /\ UNCHANGED coordVars

\* the RCODE is set and the reply written
ServerReply ==
    /\ resp # Nil
    /\ ~resp.done
    /\ resp.i > Len(resp.qs)
    /\ resp' = [resp EXCEPT !.done = TRUE,
                            !.rcode = ServerRcode(resp.missingZones, resp.answer)]
    /\ UNCHANGED <<kv, writes, fails, files, acceptedKeys, lifeVars, mem>>
    /\ UNCHANGED coordVars

MsgNext == Coordinator \/ ServerReceive \/ ServerQuestion \/ ServerReply

MsgSpec == Init /\ [][MsgNext]_vars

C28_AtMostOneWildcard ==
    (resp # Nil /\ resp.via = "mux" /\ resp.zone # Nil) =>
        (ExactRecords(resp.zone, resp.q) = <<>> => Len(resp.answer) <= 1)

\* C29: when no record has the question's relative owner and type, the answer
\* is made from wildcard records only, each of an owner "*.suffix" whose suffix
\* ends the question's relative name and of a type the question asks for, the
\* bare "*" matching every relative name and being the only wildcard used for
\* the apex; and the answer is empty only if no wildcard record matches so.
C29_WildcardSuffixRule ==
    (resp # Nil /\ resp.via = "mux" /\ resp.zone # Nil) =>
        (ExactRecords(resp.zone, resp.q) = <<>> =>
            \A wild \in {WildcardRecords(resp.zone, resp.q)} :
               /\ \A n \in 1..Len(resp.answer) :
                     \E m \in 1..Len(wild) :
                        /\ resp.answer[n] = CopyWithName(wild[m].Record, resp.q.Name)
                        /\ relative(resp.q.Name, resp.zone.Name) = <<".">> =>
                              wild[m].Record.Name = <<"*", ".">>
               /\ wild # <<>> => resp.answer # <<>>)


(* ------------------- zones with a common name prefix ------------------- *)
ZBA == <<"b", ".", "a", ".">>

\* b. and a zone whose name begins with "b."
ClearZones == {ZB, ZBA}

ClearOp(op, zoneId, store) ==
    /\ writes < MaxOps
    /\ writes' = writes + 1
    /\ kv' = store
    /\ resp' = [op |-> op, zoneId |-> zoneId, before |-> kv, after |-> store]
    /\ UNCHANGED <<fails, files, acceptedKeys, lifeVars, mem>>
    /\ UNCHANGED coordVars

PrefixAddZone == \E z \in ClearZones : ClearOp("addZone", z, EtcdAddZone(kv, z))

PrefixPatch ==
    \E z \in ClearZones, id \in Ids, rr \in StoreRRs :
        ClearOp("patch", z, EtcdPatch(kv, z, DnsRecord(id, rr), writes + 1))

PrefixClear == \E z \in ClearZones : ClearOp("clear", z, EtcdClear(kv, z))

ClearNext == PrefixAddZone \/ PrefixPatch \/ PrefixClear

ClearSpec == StoreInit /\ [][ClearNext]_vars

\* C30: clear(z) leaves z without records and without token, and leaves the
\* records, the token and the declaration of every other zone as they were, a
\* zone whose name begins with z's name included.
C30_ClearConfined ==
    (resp # Nil /\ resp.op = "clear") =>
        /\ EtcdLoad(resp.after, resp.zoneId).zone.Records = <<>>
        /\ StoredToken(resp.after, resp.zoneId) = <<>>
        /\ EtcdListZones(resp.after) = EtcdListZones(resp.before)
        /\ \A z \in ClearZones \ {resp.zoneId} :
              /\ EtcdLoad(resp.after, z) = EtcdLoad(resp.before, z)
              /\ StoredToken(resp.after, z) = StoredToken(resp.before, z)


(* ------------------- the fallback store at its edges ------------------- *)
\* C35: on the fallback, clear(z) then load(z) returns a Zone with zero records
\* and no error, whether or not z had a file before the clear.
C35_ClearThenLoad ==
    (resp # Nil /\ resp.op = "clear") =>
        /\ resp.after.status = "ok"
        /\ resp.after.zone.Records = <<>>


\* record ids of one byte, of the longest length a length byte holds, and of
\* one byte more
EdgeIds == {IdOf(1), IdOf(255), IdOf(256)}

\* a patch whose file.Write stopped after n bytes (a full disk): Patch returns
\* the error and the bytes written stay in the file
FilePatchShort(fs, zoneId, record, n) ==
    LET data == writeVarString(record.Id) \o PackRR(record.Record)
        old == IF zoneId \in DOMAIN fs THEN fs[zoneId] ELSE <<>>
    IN [x \in DOMAIN fs \cup {zoneId} |->
           IF x = zoneId THEN old \o Take(data, n) ELSE fs[x]]

EdgePatch ==
    /\ writes < MaxWrites
    /\ IF resp = Nil THEN TRUE ELSE resp.op = "patch"
    /\ \E id \in EdgeIds, rr \in StoreRRs :
          FileOp("patch", ZB, DnsRecord(id, rr), FilePatch(files, ZB, DnsRecord(id, rr)))

EdgePatchShort ==
    /\ IF resp = Nil THEN TRUE ELSE resp.op = "patch"
    /\ \E id \in EdgeIds, rr \in StoreRRs :
          \E n \in 1..(Len(writeVarString(id) \o PackRR(rr)) - 1) :
             FileOp("patchShort", ZB, DnsRecord(id, rr),
                    FilePatchShort(files, ZB, DnsRecord(id, rr), n))

EdgeNext == EdgePatch \/ EdgePatchShort

EdgeSpec == StoreInit /\ [][EdgeNext]_vars

\* C36: loading a file that ends inside a record, in the id bytes its length
\* byte announces or in the packed record, returns a load error: neither a Zone
\* nor a panic.
C36_TruncatedFile ==
    (resp # Nil /\ resp.op = "patchShort") => resp.after.status = "err"

\* C40: the length byte a patch writes is the length of the record's id, and a
\* load after the patch returns the record under that id, whatever the length
\* of the id.
C40_IdLengthByte ==
    (resp # Nil /\ resp.op = "patch") =>
        /\ writeVarString(resp.record.Id)[1] = Len(resp.record.Id)
        /\ resp.after.status = "ok"
        /\ resp.after.zone.Records[Len(resp.after.zone.Records)].Id = resp.record.Id


(* ------------------------- a zone declared again ------------------------- *)

\* C37: when remove-zone(z) is followed at once by add-zone(z) on the primary,
\* the Zone loaded for z afterwards has zero records: records patched before the
\* removal do not come back.
C37_RedeclaredStartsEmpty ==
    [][(/\ resp # Nil
        /\ resp.op = "deleteZone"
        /\ resp'.op = "addZone"
        /\ resp'.zoneId = resp.zoneId)
          => (/\ resp'.after.status = "ok"
              /\ resp'.after.zone.Records = <<>>)]_vars


(* --------------------------- names of zones ------------------------------ *)

\* the {zone} path values a client may send: absolute names and one without
\* the trailing dot
PathValues == ZoneNames \cup {<<"b">>}

\* PUT /api/v1/zone/{zone}: the path value goes to AddZone as it arrived
PutZone == \E z \in PathValues : Write(EtcdAddZone(kv, z))

NameNext == Coordinator \/ PutZone

NameSpec == Init /\ [][NameNext]_vars

\* C34: every zone in the in-memory table has a name that ends with ".".
C34_AbsoluteZoneNames ==
    \A z \in DOMAIN Zones : HasSuffix(Zones[z].Name, <<".">>)


\* C38: whenever a reconcile has returned, with or without an error, the names
\* with a registered handler are the names of the table's zones, and the handler
\* of each zone of the table answers from the Zone stored under that name.
C38_FrontEndTracksTable ==
    (pc = "list" /\ ret # "none") =>
        /\ DOMAIN handlers = {CanonicalName(z) : z \in DOMAIN Zones}
        /\ \A z \in DOMAIN Zones : handlers[CanonicalName(z)] = Zones[z]


(* --------------------------- one tick at a time -------------------------- *)

\* C32: while a reconcile is running no other reconcile starts: every step keeps
\* the zone-id list the running reconcile fetched, and either returns from it or
\* goes on with it (same old list, same phase, the loop index not moved back);
\* and the refresh loop is entered only by the return of a boot reconcile.
C32_NoOverlappingTicks ==
    [][/\ (pc \notin {"list", "crashed"}) =>
             /\ ZoneIds' = ZoneIds
             /\ \/ pc' = "list"
                \/ /\ oldZoneIds' = oldZoneIds
                   /\ phase' = phase
                   /\ idx' >= idx
       /\ (phase # "run" /\ phase' = "run") => pc' = "list"]_vars

\* a tick of the refresh loop is at work on the second zone of its list
C32_LongTick ==
    /\ phase = "run"
    /\ pc = "mirrorPatch"
    /\ idx = 2


(* ----------------------- the mirror, step by step ------------------------ *)

MirrorNext == Coordinator \/ AdminPatch

MirrorSpec == Init /\ [][MirrorNext]_vars

\* the whole records at the start of a fallback file, none when there is no file
Stored(fs, name) ==
    IF name \notin DOMAIN fs THEN <<>> ELSE FileReadRecords(fs[name], 1, <<>>).records

IsPrefix(a, b) == Len(a) <= Len(b) /\ a = SubSeq(b, 1, Len(a))

Mirroring == pc \in {"mirrorClear", "mirrorPatch"}

\* the step is one of the coordinator
Stepped == <<pc, idx, mj>>' # <<pc, idx, mj>>

Cancel ==
    /\ phase = "run"
    /\ ~ctxDone
    /\ ctxDone' = TRUE
    /\ UNCHANGED <<dns, stopper, refresher>>
    /\ UNCHANGED <<kv, writes, fails, files, resp, coordVars, acceptedKeys, mem>>

\* a store call of loadZones under the cancelled context: the primary returns
\* the context's error, and a zone absent from the table needs no IsCurrent call
CancelledStep ==
    /\ ctxDone
    /\ refresher = "running"
    /\ pc \in {"list", "check", "load"}
    /\ IF pc = "check" /\ ZoneAt(Zones, ZoneIds[idx]) = Nil
          THEN /\ pc' = "load"
               /\ prev' = Nil
               /\ UNCHANGED <<phase, ret, oldZoneIds, idx, mj>>
          ELSE Finish(TRUE)
    /\ UNCHANGED <<kv, writes, fails, files, ZoneIds, Zones, handlers, mirrorOk, resp,
                   acceptedKeys, lifeVars, mem>>

\* zoneRefresher line 91-92: the select takes the Done case
RefresherReturn ==
    /\ ctxDone
    /\ pc = "list"
    /\ refresher = "running"
    /\ refresher' = "returned"
    /\ UNCHANGED <<ctxDone, dns, stopper>>
    /\ UNCHANGED <<kv, writes, fails, files, resp, coordVars, acceptedKeys, mem>>

\* New line 93-98: the goroutine's ListenAndServe binds and serves, or fails
ListenAndServe ==
    /\ phase = "run"
    /\ dns = "new"
    /\ dns' \in {"serving", "failed"}
    /\ UNCHANGED <<ctxDone, stopper, refresher>>
    /\ UNCHANGED <<kv, writes, fails, files, resp, coordVars, acceptedKeys, mem>>

\* New line 87-91: Shutdown closes a started server and returns an error, with
\* no effect, on one that has not started
Shutdown ==
    /\ ctxDone
    /\ stopper = "waiting"
    /\ stopper' = "done"
    /\ dns' = IF dns = "serving" THEN "shutdown" ELSE dns
    /\ UNCHANGED <<ctxDone, refresher>>
    /\ UNCHANGED <<kv, writes, fails, files, resp, coordVars, acceptedKeys, mem>>

\* the refresher's steps: a call to the primary needs the context alive
Refresher ==
    \/ ~ctxDone /\ ListStep
    \/ ~ctxDone /\ CheckStep
    \/ ~ctxDone /\ LoadStep
    \/ NotifyRemove
    \/ NotifyAdd
    \/ MirrorClear
    \/ MirrorPatch
    \/ RemoveStep
    \/ CancelledStep
    \/ RefresherReturn

ShutdownNext == Refresher \/ AdminPatch \/ Cancel \/ ListenAndServe \/ Shutdown

ShutdownSpec == Init /\ [][ShutdownNext]_vars

\* C33: once the goroutine that waits for the cancellation has run, the UDP
\* listener is not serving; a state in which it has run and the listener serves
\* has no step left that would shut the listener down.
C33_ListenerShutDown ==
    stopper = "done" => dns # "serving"


(* ------------------------- scans and reloads ----------------------------- *)

\* no object yet: the table and the mux are empty and no handler runs
ScanInit ==
    /\ kv \in InitStores
    /\ files \in InitFiles
    /\ writes = 0
    /\ fails = 0
    /\ resp = Nil
    /\ InitCoordinator
    /\ InitAdmin
    /\ InitLife
    /\ mem = [heap |-> <<>>, table |-> Empty, mux |-> Empty, scan |-> Nil]

\* the mux dispatches a message to a handler: handleRequest starts to range over
\* the records of the Zone its closure points to
ScanStart ==
    /\ mem.scan = Nil
    /\ \E n \in DOMAIN mem.mux :
          mem' = [mem EXCEPT !.scan = [at |-> mem.mux[n],
                                       first |-> mem.heap[mem.mux[n]].Records,
                                       pos |-> 0]]
    /\ UNCHANGED <<kv, writes, fails, files, resp, coordVars, acceptedKeys, lifeVars>>

\* handleRequest line 28: the loop reads its next record
ScanStep ==
    /\ mem.scan # Nil
    /\ mem.scan.pos < Len(mem.heap[mem.scan.at].Records)
    /\ mem' = [mem EXCEPT !.scan.pos = mem.scan.pos + 1]
    /\ UNCHANGED <<kv, writes, fails, files, resp, coordVars, acceptedKeys, lifeVars>>

\* handleRequest line 63: the loop is over and the reply is written
ScanEnd ==
    /\ mem.scan # Nil
    /\ mem.scan.pos >= Len(mem.heap[mem.scan.at].Records)
    /\ mem' = [mem EXCEPT !.scan = Nil]
    /\ UNCHANGED <<kv, writes, fails, files, resp, coordVars, acceptedKeys, lifeVars>>

ScanNext == Coordinator \/ AdminPatch \/ ScanStart \/ ScanStep \/ ScanEnd

ScanSpec == ScanInit /\ [][ScanNext]_vars

\* C31: no step changes a Zone object that exists; a step that changes what the
\* table holds for a zone makes it point to an object that did not exist before;
\* and the records of the Zone a running scan ranges over are the records it
\* found there when it started.
C31_PublishedZonesImmutable ==
    [][/\ \A a \in DOMAIN mem.heap :
             a \in DOMAIN mem'.heap /\ mem'.heap[a] = mem.heap[a]
       /\ \A z \in DOMAIN mem'.table :
             (z \notin DOMAIN mem.table \/ Zones'[z] # Zones[z]) =>
                 mem'.table[z] \notin DOMAIN mem.heap
       /\ \A z \in DOMAIN Zones' : mem'.heap[mem'.table[z]] = Zones'[z]
       /\ mem'.scan # Nil =>
             mem'.heap[mem'.scan.at].Records = mem'.scan.first]_vars

\* a scan is under way over a Zone that a reload has replaced in the table
\* meanwhile by one with other records
C31_ScanAcrossReload ==
    /\ mem.scan # Nil
    /\ mem.scan.pos = 1
    /\ \E z \in DOMAIN mem.table :
          /\ mem.table[z] # mem.scan.at
          /\ mem.heap[mem.table[z]].Name = mem.heap[mem.scan.at].Name
          /\ mem.heap[mem.table[z]].Records # mem.scan.first

====
